---- MODULE Spec2Model ----
(***************************************************************************)
(* Typed memory views of wasmer-python (packages/api/src/memory/views.rs). *)
(* One linear memory, seen as a sequence of elements of one element type   *)
(* (Uint8Array), is shared by views that differ only in their offset.      *)
(* Absolute address a of the memory is mem[a + 1].                         *)
(***************************************************************************)
EXTENDS Integers, Sequences, FiniteSets

\* ---------------------------------------------------------------- bounds
\* Largest number of elements the memory grows to.
MaxN == 3
\* Largest offset a view is built with.
MaxOffset == 2
\* Largest index, slice start and slice stop a caller passes.
MaxIdx == 4
\* Longest sequence of values a caller passes to a slice write.
MaxVals == 2

\* --------------------------------------------------- element type (u8)
TMin == 0
TMax == 255

\* The values a caller passes: two that fit the element type, one that
\* does not.
Vals == {0, 1, 300}
Elems == {v \in Vals : v >= TMin /\ v <= TMax}
Offsets == 0 .. MaxOffset
Idx == -1 .. MaxIdx
Steps == {-1, 0, 1, 2}

\* value.extract::<$wasm_type>() succeeds
Convertible(v) == v >= TMin /\ v <= TMax

min(a, b) == IF a < b THEN a ELSE b

\* ------------------------------------------------------------ selectors
IndexSel(i) == [kind |-> "index", i |-> i, start |-> 0, stop |-> 0, step |-> 0]
SliceSel(a, b, c) == [kind |-> "slice", i |-> 0, start |-> a, stop |-> b, step |-> c]
OtherSel == [kind |-> "other", i |-> 0, start |-> 0, stop |-> 0, step |-> 0]
Selectors ==
    {IndexSel(i) : i \in Idx}
        \cup {SliceSel(a, b, c) : a \in Idx, b \in Idx, c \in Steps}
        \cup {OtherSel}

IntVal(v) == [kind |-> "int", v |-> v, vs |-> <<>>]
SeqVal(vs) == [kind |-> "seq", v |-> 0, vs |-> vs]
ValSeqs == UNION {[1 .. l -> Vals] : l \in 0 .. MaxVals}
Values == {IntVal(v) : v \in Vals} \cup {SeqVal(vs) : vs \in ValSeqs}
NoVal == IntVal(0)

\* -------------------------------------------------------------- results
Ok(shape, elems) == [tag |-> "Ok", shape |-> shape, elems |-> elems]
Err(kind) == [tag |-> kind, shape |-> "none", elems |-> <<>>]
NoRes == Err("none")

\* slice.indices(length): the slice normalised against a sequence of
\* `length` elements (step 0 is an error; negative bounds count from the
\* end; bounds are clamped to the sequence).
AdjustIndex(x, length, step) ==
    IF x < 0
    THEN IF x + length < 0
         THEN (IF step < 0 THEN -1 ELSE 0)
         ELSE x + length
    ELSE IF x >= length
         THEN (IF step < 0 THEN length - 1 ELSE length)
         ELSE x

indices(sel, length) ==
    IF sel.step = 0
    THEN [ok |-> FALSE, start |-> 0, stop |-> 0, step |-> 0]
    ELSE [ok |-> TRUE,
          start |-> AdjustIndex(sel.start, length, sel.step),
          stop |-> AdjustIndex(sel.stop, length, sel.step),
          step |-> sel.step]

\* __len__: the slice [offset..] of the whole view panics when the offset
\* is beyond the memory.
len(m, k) ==
    IF k <= Len(m) THEN Ok("scalar", <<Len(m) - k>>) ELSE Err("Panic")

\* The elements at absolute addresses a .. b - 1.
Slice(m, a, b) == [j \in 1 .. (b - a) |-> m[a + j]]

\* The bounds check and the read of __getitem__, on the resolved range
\* start .. end.
ReadRange(m, start, end) ==
    IF Len(m) <= end - 1
    THEN Err("IndexOutOfBounds")
    ELSE IF end - start = 1
    THEN Ok("scalar", <<m[start + 1]>>)
    ELSE IF end < start
    THEN Err("Panic")
    ELSE Ok("list", Slice(m, start, end))

\* Mutant of SliceRange: the upper bound is not clamped to the memory.
SliceRangeNoClamp(k, s, n) == [start |-> k + s.start, end |-> k + s.stop]

\* The resolved range of a slice read.
SliceRange(k, s, n) == [start |-> k + s.start, end |-> min(k + s.stop, n)]

\* Mutant of IndexRange: the view's offset is left out.
IndexRangeNoOffset(k, i) == [start |-> i, end |-> i + 1]

\* The resolved range of an index read.
IndexRange(k, i) == [start |-> k + i, end |-> k + i + 1]

\* The step a slice read refuses.
GetStepRefused(step) == step > 1

getitem(m, k, sel) ==
    IF sel.kind = "slice"
    THEN LET s == indices(sel, Len(m)) IN
         IF ~s.ok THEN Err("StepZero")
         ELSE IF s.start >= s.stop THEN Err("EmptySlice")
         ELSE IF GetStepRefused(s.step) THEN Err("UnsupportedStep")
         ELSE LET r == SliceRange(k, s, Len(m)) IN ReadRange(m, r.start, r.end)
    ELSE IF sel.kind = "index"
    THEN IF sel.i < 0 THEN Err("NegativeIndex")
         ELSE LET r == IndexRange(k, sel.i) IN ReadRange(m, r.start, r.end)
    ELSE Err("InvalidSelector")

\* Range { start, end }.step_by(step).len()
IterLen(s) == (s.stop - s.start + s.step - 1) \div s.step

\* Mutant of WriteAddr: the step is left out.
WriteAddrNoStep(k, s, j) == k + s.start + j

\* The address the j-th pair of the slice write loop writes.
WriteAddr(k, s, j) == k + s.start + j * s.step

\* Mutant of WriteLoop: a value that does not convert is skipped and the
\* loop goes on.
RECURSIVE WriteLoopSkip(_, _, _, _, _, _)
WriteLoopSkip(m, k, s, vs, j, cnt) ==
    IF j >= cnt
    THEN [mem |-> m, res |-> Ok("none", <<>>)]
    ELSE IF ~Convertible(vs[j + 1])
    THEN WriteLoopSkip(m, k, s, vs, j + 1, cnt)
    ELSE IF WriteAddr(k, s, j) >= Len(m)
    THEN [mem |-> m, res |-> Err("Panic")]
    ELSE WriteLoopSkip([m EXCEPT ![WriteAddr(k, s, j) + 1] = vs[j + 1]],
                       k, s, vs, j + 1, cnt)

\* The write loop over iterator.zip(values): pairs j .. cnt - 1.
RECURSIVE WriteLoop(_, _, _, _, _, _)
WriteLoop(m, k, s, vs, j, cnt) ==
    IF j >= cnt
    THEN [mem |-> m, res |-> Ok("none", <<>>)]
    ELSE IF ~Convertible(vs[j + 1])
    THEN [mem |-> m, res |-> Err("TypeMismatch")]
    ELSE IF WriteAddr(k, s, j) >= Len(m)
    THEN [mem |-> m, res |-> Err("Panic")]
    ELSE WriteLoop([m EXCEPT ![WriteAddr(k, s, j) + 1] = vs[j + 1]],
                   k, s, vs, j + 1, cnt)

\* Mutant of WriteIndex: the element is written at the index, not at
\* offset + index.
WriteIndexNoOffset(m, k, i, v) ==
    IF i < 0
    THEN [mem |-> m, res |-> Err("NegativeIndex")]
    ELSE IF Len(m) <= k + i
    THEN [mem |-> m, res |-> Err("IndexOutOfBounds")]
    ELSE [mem |-> [m EXCEPT ![i + 1] = v], res |-> Ok("none", <<>>)]

\* The single-element write of __setitem__.
WriteIndex(m, k, i, v) ==
    IF i < 0
    THEN [mem |-> m, res |-> Err("NegativeIndex")]
    ELSE IF Len(m) <= k + i
    THEN [mem |-> m, res |-> Err("IndexOutOfBounds")]
    ELSE [mem |-> [m EXCEPT ![k + i + 1] = v], res |-> Ok("none", <<>>)]

setitem(m, k, sel, val) ==
    IF sel.kind = "slice" /\ val.kind = "seq"
    THEN LET s == indices(sel, Len(m)) IN
         IF ~s.ok THEN [mem |-> m, res |-> Err("StepZero")]
         ELSE IF s.start >= s.stop THEN [mem |-> m, res |-> Err("EmptySlice")]
         ELSE IF s.step < 1 THEN [mem |-> m, res |-> Err("UnsupportedStep")]
         ELSE IF IterLen(s) > Len(m) THEN [mem |-> m, res |-> Err("SliceOverflow")]
         ELSE WriteLoop(m, k, s, val.vs, 0, min(IterLen(s), Len(val.vs)))
    ELSE IF sel.kind = "index" /\ val.kind = "int" /\ Convertible(val.v)
    THEN WriteIndex(m, k, sel.i, val.v)
    ELSE [mem |-> m, res |-> Err("InvalidSelector")]

\* ---------------------------------------------------------------- state
VARIABLES
    mem,      \* the linear memory, as elements of the element type
    pc,       \* the caller: "ready" to call, or "returned" from a call
    op,       \* the call that returned: its name, view offset and arguments
    pre,      \* the memory when that call was made
    result,   \* what that call returned
    last      \* per address, the value most recently written to it

vars == <<mem, pc, op, pre, result, last>>

NoOp == [name |-> "none", offset |-> 0, sel |-> OtherSel, val |-> NoVal]

\* The number of pairs of a slice write that reach memory: the longest
\* prefix of pairs whose value fits the element type and whose address is
\* inside the memory.
PairsWritten(m, k, s, vs) ==
    LET cnt == min(IterLen(s), Len(vs))
        good(w) == \A j \in 0 .. w - 1 :
                       Convertible(vs[j + 1]) /\ k + s.start + j * s.step < Len(m)
    IN CHOOSE w \in 0 .. cnt : good(w) /\ (w = cnt \/ ~good(w + 1))

\* `last` after the call set(sel, val) through the view at offset k.
LastAfterSet(l, m, k, sel, val) ==
    IF sel.kind = "slice" /\ val.kind = "seq"
    THEN LET s == indices(sel, Len(m)) IN
         IF s.ok /\ s.start < s.stop /\ s.step >= 1
         THEN LET w == PairsWritten(m, k, s, val.vs) IN
              [a \in 1 .. Len(l) |->
                  IF \E j \in 0 .. w - 1 : a - 1 = k + s.start + j * s.step
                  THEN val.vs[(CHOOSE j \in 0 .. w - 1 :
                                  a - 1 = k + s.start + j * s.step) + 1]
                  ELSE l[a]]
         ELSE l
    ELSE IF /\ sel.kind = "index" /\ val.kind = "int" /\ Convertible(val.v)
            /\ sel.i >= 0 /\ k + sel.i < Len(m)
    THEN [l EXCEPT ![k + sel.i + 1] = val.v]
    ELSE l

Init ==
    /\ mem = <<>>
    /\ pc = "ready"
    /\ op = NoOp
    /\ pre = <<>>
    /\ result = NoRes
    /\ last = <<>>

\* The memory provider grows the memory; new elements are zero.
Grow ==
    /\ pc = "ready"
    /\ Len(mem) < MaxN
    /\ mem' = Append(mem, 0)
    /\ last' = Append(last, 0)
    /\ UNCHANGED <<pc, op, pre, result>>

LenCall ==
    /\ pc = "ready"
    /\ \E k \in Offsets :
          /\ op' = [name |-> "len", offset |-> k, sel |-> OtherSel, val |-> NoVal]
          /\ result' = len(mem, k)
    /\ pre' = mem
    /\ pc' = "returned"
    /\ UNCHANGED <<mem, last>>

GetItem ==
    /\ pc = "ready"
    /\ \E k \in Offsets, sel \in Selectors :
          /\ op' = [name |-> "get", offset |-> k, sel |-> sel, val |-> NoVal]
          /\ result' = getitem(mem, k, sel)
    /\ pre' = mem
    /\ pc' = "returned"
    /\ UNCHANGED <<mem, last>>

SetItem ==
    /\ pc = "ready"
    /\ \E k \in Offsets, sel \in Selectors, val \in Values :
          /\ op' = [name |-> "set", offset |-> k, sel |-> sel, val |-> val]
          /\ mem' = setitem(mem, k, sel, val).mem
          /\ result' = setitem(mem, k, sel, val).res
          /\ last' = LastAfterSet(last, mem, k, sel, val)
    /\ pre' = mem
    /\ pc' = "returned"

\* The caller takes the result and is ready for its next call.
Return ==
    /\ pc = "returned"
    /\ pc' = "ready"
    /\ op' = NoOp
    /\ pre' = <<>>
    /\ result' = NoRes
    /\ UNCHANGED <<mem, last>>

Next == Grow \/ LenCall \/ GetItem \/ SetItem \/ Return

Spec == Init /\ [][Next]_vars

TypeOK ==
    /\ mem \in UNION {[1 .. l -> Elems] : l \in 0 .. MaxN}
    /\ pc \in {"ready", "returned"}
    /\ Len(last) = Len(mem)

\* --------------------------------------------------------------- claims
\* The call that returned.
Returned(name) == pc = "returned" /\ op.name = name
\* Its slice, resolved against the memory it was made on.
OpSlice == indices(op.sel, Len(pre))
\* A slice call whose resolved range is not empty.
SliceCall(name) ==
    /\ Returned(name)
    /\ op.sel.kind = "slice"
    /\ OpSlice.ok
    /\ OpSlice.start < OpSlice.stop
\* The same, of a slice whose bounds the caller gave as non-negative numbers.
PlainSliceCall(name) ==
    /\ SliceCall(name)
    /\ op.sel.start >= 0
    /\ op.sel.stop >= 0
\* The number of positions of the resolved slice of a write.
Positions == (OpSlice.stop - OpSlice.start + OpSlice.step - 1) \div OpSlice.step
\* The absolute address of the j-th position of the resolved slice.
AddrOf(j) == op.offset + OpSlice.start + j * OpSlice.step
\* The number of pairs (position, value) of a slice write.
Pairs == IF Positions < Len(op.val.vs) THEN Positions ELSE Len(op.val.vs)
\* The memory is `pre` but for the first w pairs of the slice write.
WroteFirst(w) ==
    /\ Len(mem) = Len(pre)
    /\ \A a \in 0 .. Len(pre) - 1 :
          mem[a + 1] = IF \E j \in 0 .. w - 1 : a = AddrOf(j)
                       THEN op.val.vs[(CHOOSE j \in 0 .. w - 1 : a = AddrOf(j)) + 1]
                       ELSE pre[a + 1]

\* The number of positions of the slice of a write as the caller gave it.
GivenPositions == (op.sel.stop - op.sel.start + op.sel.step - 1) \div op.sel.step

\* C1: a slice write whose (start, stop, step) has more positions than the
\* view's current length n - k fails with SliceOverflow.
C1_SliceOverflow ==
    (/\ PlainSliceCall("set")
     /\ op.val.kind = "seq"
     /\ OpSlice.step >= 1
     /\ GivenPositions > Len(pre) - op.offset)
        => result.tag = "SliceOverflow"

\* C2: a slice read with start < stop and a step other than 1 fails with
\* UnsupportedStep.
C2_UnsupportedStep ==
    (/\ Returned("get")
     /\ op.sel.kind = "slice"
     /\ 0 <= op.sel.start
     /\ op.sel.start < op.sel.stop
     /\ op.sel.step # 1
     /\ OpSlice.ok => OpSlice.start < OpSlice.stop)
        => result.tag = "UnsupportedStep"

C4_StartBeyond ==
    (/\ PlainSliceCall("get")
     /\ OpSlice.step = 1
     /\ op.offset + OpSlice.start >= Len(pre))
        => result.tag = "IndexOutOfBounds"

\* C5: a single-index write of a value that does not fit the element type
\* fails with TypeMismatch and leaves the memory unchanged.
C5_TypeMismatch ==
    (/\ Returned("set")
     /\ op.sel.kind = "index"
     /\ op.val.kind = "int"
     /\ op.sel.i >= 0
     /\ op.sel.i < Len(pre) - op.offset
     /\ ~(op.val.v >= TMin /\ op.val.v <= TMax))
        => (result.tag = "TypeMismatch" /\ mem = pre)

\* C6: through every view (offset k), get(i) for 0 <= i < length(view)
\* returns the value most recently written to absolute address k + i.
C6_ReadAfterWrite ==
    \A k \in Offsets :
        \A i \in 0 .. (Len(mem) - k - 1) :
            getitem(mem, k, IndexSel(i)) = Ok("scalar", <<last[k + i + 1]>>)

\* A read through a view with an offset returns a value that only a write
\* can have put there (the memory grows zero-filled).
C6_Witness ==
    /\ Returned("get")
    /\ op.sel.kind = "index"
    /\ op.offset > 0
    /\ op.sel.i > 0
    /\ result = Ok("scalar", <<1>>)
    /\ last[op.offset + op.sel.i + 1] = 1

\* C7: get(i), and set(i, v) with a value that fits, fail with NegativeIndex
\* for i < 0 and with IndexOutOfBounds for i >= n - k, n being the length of
\* the memory at the call; they succeed otherwise; a failing call leaves the
\* memory unchanged.
C7_IndexBounds ==
    (/\ pc = "returned"
     /\ op.name \in {"get", "set"}
     /\ op.sel.kind = "index"
     /\ op.name = "set" => (op.val.kind = "int" /\ op.val.v >= TMin /\ op.val.v <= TMax))
        => /\ op.sel.i < 0 => (result.tag = "NegativeIndex" /\ mem = pre)
           /\ (op.sel.i >= 0 /\ op.sel.i >= Len(pre) - op.offset)
                 => (result.tag = "IndexOutOfBounds" /\ mem = pre)
           /\ (op.sel.i >= 0 /\ op.sel.i < Len(pre) - op.offset)
                 => result.tag = "Ok"

C7_Witness ==
    /\ Returned("set")
    /\ op.sel.kind = "index"
    /\ op.val.kind = "int"
    /\ op.offset > 0
    /\ op.sel.i >= Len(pre) - op.offset
    /\ op.sel.i < Len(pre)
    /\ result.tag = "IndexOutOfBounds"

\* C8: a successful slice write with step >= 1 writes values[j] to address
\* k + start + j * step for exactly j = 0 .. min(P, len(values)) - 1 and
\* leaves every other element unchanged; a values sequence shorter or longer
\* than the P positions is no error.
C8_SliceWrite ==
    (/\ SliceCall("set")
     /\ op.val.kind = "seq"
     /\ OpSlice.step >= 1)
        => /\ result.tag = "Ok" => WroteFirst(Pairs)
           /\ (\A j \in 0 .. Pairs - 1 :
                  /\ op.val.vs[j + 1] >= TMin
                  /\ op.val.vs[j + 1] <= TMax
                  /\ AddrOf(j) < Len(pre))
                 => result.tag = "Ok"

C8_Witness ==
    /\ SliceCall("set")
    /\ op.val.kind = "seq"
    /\ result.tag = "Ok"
    /\ op.offset > 0
    /\ Len(op.val.vs) = 2
    /\ Positions = 3
    /\ mem # pre

\* C9: a successful slice read of step 1 returns a sequence as long as the
\* resolved range (also when that is 1), whose j-th element is the element
\* at address k + start + j.
C9_SliceRead ==
    (/\ PlainSliceCall("get")
     /\ OpSlice.step = 1
     /\ result.tag = "Ok")
        => /\ result.shape = "list"
           /\ Len(result.elems) =
                 (IF op.offset + OpSlice.stop < Len(pre)
                  THEN op.offset + OpSlice.stop ELSE Len(pre))
                     - (op.offset + OpSlice.start)
           /\ \A j \in 1 .. Len(result.elems) :
                 result.elems[j] = pre[op.offset + OpSlice.start + j]

\* C10: in a slice write whose positions are all inside the view, when
\* values[m] is the first value that does not fit the element type (m less
\* than the number of positions), the call fails with TypeMismatch, the
\* first m positions hold values[0 .. m - 1], and every other element is
\* unchanged.
C10_TornWrite ==
    (/\ SliceCall("set")
     /\ op.val.kind = "seq"
     /\ OpSlice.step >= 1
     /\ AddrOf(Positions - 1) < Len(pre))
        => \A m \in 0 .. Pairs - 1 :
              (/\ ~(op.val.vs[m + 1] >= TMin /\ op.val.vs[m + 1] <= TMax)
               /\ \A j \in 0 .. m - 1 :
                     op.val.vs[j + 1] >= TMin /\ op.val.vs[j + 1] <= TMax)
                 => (result.tag = "TypeMismatch" /\ WroteFirst(m))

C10_Witness ==
    /\ SliceCall("set")
    /\ op.val.kind = "seq"
    /\ OpSlice.step >= 1
    /\ AddrOf(Positions - 1) < Len(pre)
    /\ result.tag = "TypeMismatch"
    /\ Len(op.val.vs) >= 2
    /\ op.val.vs[2] > TMax
    /\ mem # pre
====
